---- MODULE Spec2Model ----
(***************************************************************************)
(* A model of src/src/geminimcp/server.py: the gemini tool, which runs the *)
(* Gemini CLI as a subprocess, relays its output lines through a bounded   *)
(* queue from a reader thread (read_output) to a polling generator         *)
(* (run_shell_command), and folds the lines into a result (gemini).        *)
(*                                                                         *)
(* Two specifications share the definitions below.                         *)
(*   Spec     the whole invocation: pre-flight checks, subprocess, reader  *)
(*            thread, queue, poll loop with its deadline check, cleanup,   *)
(*            drain and verdict.                                           *)
(*   SpecAgg  the for loop of gemini alone (lines 255-315), with           *)
(*            run_shell_command seen as what it is to that loop: a         *)
(*            generator that yields stripped lines, ends, or raises        *)
(*            GeminiTimeoutError.  It allows streams long enough to fill   *)
(*            the error log.                                               *)
(***************************************************************************)
EXTENDS Integers, Sequences, FiniteSets

VARIABLES
    cd,                  \* the workspace path given by the caller
    auth_ok,             \* what check_gemini_auth() will answer
    timeout,             \* the configured timeout, in clock ticks
    return_all_messages, \* the caller's flag
    stream,              \* the lines the subprocess writes if it is left alone
    pc,                  \* position of the calling thread (gemini + generator)
    result,              \* the dictionary gemini returns, NoResult before
    probes,              \* number of `gemini --version` probes started
    process,             \* "none" | "running" | "exited"
    reaped,              \* the exit status has been collected (wait/poll)
    sigterm,             \* process.terminate() has signalled the process
    sigkill,             \* process.kill() has signalled the process
    out_closed,          \* the running subprocess has closed its output
    nWritten,            \* lines of stream written to the pipe so far
    nRead,               \* lines the reader thread has taken from the pipe
    rpc,                 \* position of the reader thread (read_output)
    stripped,            \* read_output's local: the line it is relaying
    output_queue,        \* queue.Queue(maxsize): lines and the None marker
    now,                 \* wall clock, in ticks since start_time
    all_messages,        \* gemini's locals
    agent_messages,
    thread_id,
    err_message,
    delivered,           \* history: the lines the for loop body has been given
    left_by_break,       \* history: the for loop was left by `break`
    nFull,               \* history: number of queue.Full raised in read_output
    nTerminate,          \* history: number of process.terminate() calls
    sentinelRead,        \* history: lines read whose type is turn.completed
    expired_open,        \* history: the clock passed the timeout while the
                         \* subprocess's output had not ended
    nMarkers,            \* history: number of None items put on the queue
    joined,              \* history: thread.join(timeout=5) has been called
    enqueued             \* history: the lines put on the queue, in order

inputVars == <<cd, auth_ok, timeout, return_all_messages, stream>>
aggVars   == <<all_messages, agent_messages, thread_id, err_message,
               delivered, left_by_break>>
procVars  == <<process, reaped, sigterm, sigkill, out_closed, nWritten>>
relayVars == <<nRead, rpc, stripped, nFull, nTerminate, sentinelRead>>
vars == <<cd, auth_ok, timeout, return_all_messages, stream, pc, result,
          probes, process, reaped, sigterm, sigkill, out_closed, nWritten,
          nRead, rpc, stripped,
          output_queue, now, all_messages, agent_messages, thread_id,
          err_message, delivered, left_by_break, nFull, nTerminate,
          sentinelRead, expired_open, nMarkers, joined, enqueued>>
ledger == <<nMarkers, joined, enqueued>>

----------------------------------------------------------------------------
(* Bounds of the model. *)

MaxLines == 4        \* Spec: longest subprocess output, in lines
QueueCap == 2        \* Spec: the queue's maxsize, scaled down from 10000
MaxTimeout == 1      \* Spec: the timeout, in ticks of the clock
MaxOdd == 1          \* Spec
MaxBadRun == 11      \* SpecAgg: longest run of long malformed lines that
                     \* opens a stream
MaxTail == 3         \* SpecAgg: lines of a stream after that run when the
                     \* run has at most one line
MaxRunTail == 1      \* SpecAgg: lines of a stream after a longer run

(* Program constants. *)

DEFAULT_TIMEOUT == 300   \* seconds
ERR_CAP == 2000      \* len(err_message) < 2000
SNIPPET == 200       \* line[:200]

----------------------------------------------------------------------------
(* Python and JSON values.  None and JSON null are the same value; Absent  *)
(* marks a key that a JSON object does not have.                           *)

None == "<None>"
Absent == "<absent>"
NoResult == [returned |-> FALSE]

(* Paths: a path is absolute or relative to the current directory.         *)
Path(abs, parts) == [abs |-> abs, parts |-> parts]
Cwd == <<"home">>
WorkDir == Path(TRUE, <<"work">>)
GoneRel == Path(FALSE, <<"gone">>)
GoneAbs == Path(TRUE, <<"gone">>)
AFile == Path(TRUE, <<"afile">>)
Dirs == {<<"work">>, <<"home">>}
Files == {<<"afile">>}

(* Path.absolute() *)
Absolute(p) == IF p.abs THEN p ELSE Path(TRUE, Cwd \o p.parts)

(* Path.exists(): true of a directory and of a file *)
Exists(p) == Absolute(p).parts \in Dirs \cup Files

(* the path can be the cwd of a subprocess *)
IsDir(p) == Absolute(p).parts \in Dirs

(* Text is a sequence of tokens; NOTICE stands for the sentence            *)
(* "The --prompt (-p) flag has been deprecated".  A JSON value is known by *)
(* the name t of its Python type; s holds the tokens of a string, the      *)
(* elements of a list or the keys of a dict.                               *)
NOTICE == "The --prompt (-p) flag has been deprecated"

Str(s) == [t |-> "str", s |-> s]
List(s) == [t |-> "list", s |-> s]
Num == [t |-> "int", s |-> <<>>]
Null == [t |-> "NoneType", s |-> <<>>]
NoContent == [t |-> "absent", s |-> <<>>]

(* len(type(v).__name__) *)
TypeLen(t) ==
    CASE t \in {"int", "str"} -> 3
      [] t \in {"list", "dict", "bool"} -> 4
      [] t = "float" -> 5
      [] t = "NoneType" -> 8
      [] OTHER -> 0

(* A line of output.  json says what json.loads finds in the text: "bad"   *)
(* is text that is no JSON document, "object" a JSON object, any other     *)
(* type name ("list", "int", "str", "NoneType", "float", "bool") a JSON    *)
(* document of that type; "bytes" is a line that is not valid UTF-8.  len  *)
(* is the length of the text without surrounding white space (for an       *)
(* "int", its number of digits), ws the amount of that white space, tw the *)
(* number of white characters that end the first 200 characters of the     *)
(* stripped text.  The scanner of json.loads reads the text from left to   *)
(* right: depth is the deepest nesting of arrays and objects it enters,    *)
(* inner the kind of the container it enters last, digits the number of    *)
(* digits of the first integer literal it meets that is longer than the    *)
(* limit of int(), else of the longest integer literal it meets.           *)
Line(json, len, ws, type, role, content, sid) ==
    [json |-> json, len |-> len, ws |-> ws, tw |-> 0, type |-> type,
     role |-> role, content |-> content, session_id |-> sid,
     digits |-> IF json = "int" THEN len ELSE 0,
     depth |-> IF json \in {"object", "list"} THEN 1 ELSE 0,
     inner |-> IF json = "object" THEN "object" ELSE "array"]

(* the line with k white characters at the end of its first 200 *)
Gap(line, k) == [line EXCEPT !.tw = k]

(* the line holding an integer literal of d digits *)
WithInt(line, d) == [line EXCEPT !.digits = d]

(* the line whose text nests d containers, the innermost of kind k *)
Nested(line, d, k) == [line EXCEPT !.depth = d, !.inner = k]

BadShort  == Line("bad", 5, 1, Absent, Absent, NoContent, Absent)
BadLong   == Line("bad", 300, 1, Absent, Absent, NoContent, Absent)
BadGap    == Gap(Line("bad", 250, 1, Absent, Absent, NoContent, Absent), 1)
Blank     == Line("bad", 0, 1, Absent, Absent, NoContent, Absent)
NonObject == Line("list", 3, 1, Absent, Absent, NoContent, Absent)
BigInt    == Line("int", 5000, 1, Absent, Absent, NoContent, Absent)
ObjBigInt == WithInt(Line("object", 5069, 1, "message", "user",
                          Str(<<"u">>), "s2"), 5000)
ListBigInt == WithInt(Line("list", 5002, 1, Absent, Absent, NoContent,
                           Absent), 5000)
DeepList  == Nested(Line("list", 200000, 1, Absent, Absent, NoContent,
                         Absent), 100000, "array")
(* nested 990 deep: within the reader thread's stack, beyond gemini's *)
AsstDeep  == Nested(Line("object", 2060, 1, "message", "assistant",
                         Str(<<"d">>), "s3"), 990, "array")
BadDeep   == Nested(Line("bad", 990, 1, Absent, Absent, NoContent, Absent),
                    990, "array")
AsstA     == Line("object", 50, 1, "message", "assistant", Str(<<"a">>), Absent)
AsstB     == Line("object", 70, 1, "message", "assistant", Str(<<"b">>), "s1")
UserU     == Line("object", 65, 1, "message", "user", Str(<<"u">>), "s2")
NullSid   == Line("object", 45, 1, "init", Absent, NoContent, None)
NoticeX   == Line("object", 110, 1, "message", "assistant",
                  Str(<<NOTICE, "x">>), "s2")
NoticeOnly == Line("object", 95, 1, "message", "assistant",
                   Str(<<NOTICE>>), Absent)
AsstNum   == Line("object", 60, 1, "message", "assistant", Num, "s2")
AsstNull  == Line("object", 62, 1, "message", "assistant", Null, "s2")
AsstList  == Line("object", 99, 1, "message", "assistant",
                  List(<<NOTICE>>), "s2")
Sentinel  == Line("object", 27, 1, "turn.completed", Absent, NoContent, Absent)
BadBytes  == Line("bytes", 4, 1, Absent, Absent, NoContent, Absent)

(* The item None on the queue, and None as read_output's `stripped`. *)
NoLine    == Line("None", 0, 0, Absent, Absent, NoContent, Absent)

(* str.strip() *)
Strip(line) == [line EXCEPT !.ws = 0]

Min(a, b) == IF a < b THEN a ELSE b

(* len(str(n)) *)
RECURSIVE Digits(_)
Digits(n) == IF n < 10 THEN 1 ELSE 1 + Digits(n \div 10)

(* sys.get_int_max_str_digits(): int() of a longer digit string raises     *)
(* ValueError                                                              *)
INT_MAX_STR_DIGITS == 4300

(* sys.getrecursionlimit() *)
RECURSION_LIMIT == 1000

(* The frames on the stack when the scanner of json.loads starts.  In the  *)
(* reader thread: Thread._bootstrap, _bootstrap_inner, run, read_output,   *)
(* is_turn_completed, loads, decode, raw_decode.  In gemini's loop:        *)
(* gemini, loads, decode, raw_decode, on top of the frames of whatever     *)
(* runs the coroutine; CallerFrames is the stack of an asyncio event loop  *)
(* driven by run_until_complete.                                           *)
ReaderFrames == 8
CallerFrames == 9
LoopFrames == CallerFrames + 4

(* What json.loads gives for a document it decodes. *)
Decoded(line) ==
    [ok |-> TRUE, exc |-> "none", object |-> line.json = "object",
     pytype |-> IF line.json = "object" THEN "dict" ELSE line.json,
     type |-> line.type, role |-> line.role, content |-> line.content,
     session_id |-> line.session_id]

(* json.loads, called with `frames` frames on the stack, has four          *)
(* outcomes.  The scanner raises RecursionError where the nesting and the  *)
(* frames together reach the recursion limit (each array or object takes   *)
(* one level), ValueError at an integer literal of more than 4300 digits   *)
(* (alone or inside an array or an object), JSONDecodeError where the text *)
(* is no JSON document; else it gives the decoded value.  depth and digits *)
(* say what the scanner meets before it stops, so the first test that      *)
(* applies decides.                                                        *)
DecodeError == [ok |-> FALSE, exc |-> "JSONDecodeError"]
IntLimitError == [ok |-> FALSE, exc |-> "ValueError"]
RecursionLimitError == [ok |-> FALSE, exc |-> "RecursionError"]
json_loads(line, frames) ==
    IF line.depth + frames >= RECURSION_LIMIT THEN RecursionLimitError
    ELSE IF line.digits > INT_MAX_STR_DIGITS THEN IntLimitError
    ELSE IF line.json = "bad" THEN DecodeError
    ELSE Decoded(line)

(* len(str(error)) of the exceptions the code meets *)
(* Exceeds the limit (4300 digits) for integer string conversion: value    *)
(* has N digits; use sys.set_int_max_str_digits() to increase the limit    *)
ValueErrorLen(line) == 136 + Digits(line.digits)
(* maximum recursion depth exceeded while decoding a JSON array [object]   *)
(* from a unicode string                                                   *)
RecursionErrorLen(line) == 77 + (IF line.inner = "object" THEN 6 ELSE 5)
AttributeErrorLen(t) == 32 + TypeLen(t)  \* 'T' object has no attribute 'get'
NotIterableLen(t) == 35 + TypeLen(t)     \* argument of type 'T' is not iterable
ConcatLen(t) == 40 + TypeLen(t)  \* can only concatenate str (not "T") to str

(* dict.get(key, default) on a decoded object *)
Get(v, default) == IF v = Absent THEN default ELSE v
GetContent(c, default) == IF c.t = "absent" THEN default ELSE c

(* What a call does: it returns a value or raises. *)
Returns(v) == [raised |-> FALSE, value |-> v]
Raises == [raised |-> TRUE, value |-> FALSE]

(* is_turn_completed: JSONDecodeError, AttributeError and TypeError give   *)
(* False; the ValueError and the RecursionError of json.loads are not      *)
(* caught.                                                                 *)
is_turn_completed(line) ==
    LET data == json_loads(line, ReaderFrames)
    IN  IF data.exc \in {"ValueError", "RecursionError"} THEN Raises
        ELSE Returns(/\ data.ok
                     /\ data.object
                     /\ data.type = "turn.completed")

TurnCompleted(line) == is_turn_completed(line) = Returns(TRUE)

----------------------------------------------------------------------------
(* err_message is a sequence of entries; an entry is the fixed text that   *)
(* introduces it and n characters of payload.                              *)

PrefixLen(tag) ==
    CASE tag = "json" -> 21            \* "\n[json decode error] "
      [] tag = "unexpected" -> 20      \* "\n[unexpected error] "
      [] OTHER -> 0

(* tw: the white characters that end the entry's text; cut: the           *)
(* characters str.strip() has taken from its end.                          *)
Entry(tag, n) == [tag |-> tag, n |-> n, tw |-> 0, cut |-> 0]

(* "\n[json decode error] " + line[:200]: the snippet of an empty line     *)
(* leaves the blank of the prefix at the end of the text                   *)
JsonEntry(line) ==
    LET n == Min(line.len, SNIPPET)
    IN  [tag |-> "json", n |-> n, tw |-> IF n = 0 THEN 1 ELSE line.tw,
         cut |-> 0]

(* err_message.strip(): the text begins with the verdict's sentence, so    *)
(* only the white characters at its end go                                 *)
StripMsg(msg) ==
    IF msg = <<>> THEN msg
    ELSE [msg EXCEPT ![Len(msg)].cut = msg[Len(msg)].tw]

RECURSIVE TextLen(_)
TextLen(msg) ==
    IF msg = <<>> THEN 0
    ELSE PrefixLen(Head(msg).tag) + Head(msg).n + TextLen(Tail(msg))

(* OnDecodeError without the slice [:200] *)
OnDecodeErrorWholeLine(msg, line) ==
    IF TextLen(msg) < ERR_CAP
    THEN Append(msg, [JsonEntry(line) EXCEPT !.n = line.len])
    ELSE msg

(* the branch `except json.JSONDecodeError` *)
OnDecodeError(msg, line) ==
    IF TextLen(msg) < ERR_CAP
    THEN Append(msg, JsonEntry(line))
    ELSE msg

(* HasNotice as a test of equality *)
HasNoticeExact(content) == content.s = <<NOTICE>>

(* `in` on the content: the notice is a substring of a string, an element *)
(* of a list, a key of a dict                                              *)
HasNotice(content) == \E i \in 1..Len(content.s) : content.s[i] = NOTICE

(* AppendContent with the operands exchanged *)
PrependContent(text, content) == content.s \o text

(* agent_messages += content *)
AppendContent(text, content) == text \o content.s

(* thread_id after the session_id test of a line *)
NextThreadId(tid, ev) ==
    IF Get(ev.session_id, None) # None THEN ev.session_id ELSE tid

(* The body of the for loop of gemini on one line: the aggregator's state  *)
(* after it, and whether the loop goes on.                                 *)
Agg(am, ag, tid, em, go) ==
    [all_messages |-> am, agent_messages |-> ag, thread_id |-> tid,
     err_message |-> em, go |-> go]

(* lines 257-280 *)
LoopBody(a, line) ==
    LET ev == json_loads(Strip(line), LoopFrames)
        am == IF ev.ok THEN Append(a.all_messages, ev) ELSE a.all_messages
        stop(n) == Agg(am, a.agent_messages, a.thread_id,
                       Append(a.err_message, Entry("unexpected", n)), FALSE)
    IN  IF ev.exc = "JSONDecodeError"
        THEN Agg(a.all_messages, a.agent_messages, a.thread_id,
                 OnDecodeError(a.err_message, line), TRUE)
        ELSE IF ev.exc = "ValueError"
        THEN \* json.loads raises: nothing was appended to all_messages
             Agg(a.all_messages, a.agent_messages, a.thread_id,
                 Append(a.err_message,
                        Entry("unexpected", ValueErrorLen(line))), FALSE)
        ELSE IF ev.exc = "RecursionError"
        THEN Agg(a.all_messages, a.agent_messages, a.thread_id,
                 Append(a.err_message,
                        Entry("unexpected", RecursionErrorLen(line))), FALSE)
        ELSE IF ~ev.object
        THEN \* line_dict.get raises AttributeError
             stop(AttributeErrorLen(ev.pytype))
        ELSE IF Get(ev.type, "") = "message" /\ Get(ev.role, "") = "assistant"
        THEN LET content == GetContent(ev.content, Str(<<>>))
             IN  IF content.t \notin {"str", "list", "dict"}
                 THEN \* `in` raises TypeError
                      stop(NotIterableLen(content.t))
                 ELSE IF HasNotice(content)
                 THEN \* continue
                      Agg(am, a.agent_messages, a.thread_id,
                          a.err_message, TRUE)
                 ELSE IF content.t # "str"
                 THEN \* `+=` raises TypeError
                      stop(ConcatLen(content.t))
                 ELSE Agg(am, AppendContent(a.agent_messages, content),
                          NextThreadId(a.thread_id, ev), a.err_message, TRUE)
        ELSE Agg(am, a.agent_messages, NextThreadId(a.thread_id, ev),
                 a.err_message, TRUE)

(* Lines 289-315: the result built when no timeout was raised. *)
AllMessagesField(flag, am) ==
    IF flag THEN [t |-> "list", v |-> am] ELSE [t |-> "absent", v |-> <<>>]

(* Verdict with the second test written without `success and` *)
VerdictUnguarded(tid, ag, em, flag, am) ==
    LET em1 == IF tid = None THEN <<Entry("missing_session", 0)>> \o em ELSE em
        success2 == tid # None /\ Len(ag) # 0
        em2 == IF Len(ag) = 0
               THEN <<Entry("empty_response", 0)>> \o em1 ELSE em1
    IN  IF success2
        THEN [returned |-> TRUE, success |-> TRUE, SESSION_ID |-> tid,
              agent_messages |-> ag, error |-> <<>>, seconds |-> 0,
              path |-> <<>>, all_messages |-> AllMessagesField(flag, am)]
        ELSE [returned |-> TRUE, success |-> FALSE, SESSION_ID |-> Absent,
              agent_messages |-> <<>>, error |-> StripMsg(em2),
              seconds |-> 0,
              path |-> <<>>, all_messages |-> AllMessagesField(flag, am)]

Verdict(tid, ag, em, flag, am) ==
    LET success1 == tid # None
        em1 == IF tid = None THEN <<Entry("missing_session", 0)>> \o em ELSE em
        success2 == success1 /\ Len(ag) # 0
        em2 == IF success1 /\ Len(ag) = 0
               THEN <<Entry("empty_response", 0)>> \o em1 ELSE em1
    IN  IF success2
        THEN [returned |-> TRUE, success |-> TRUE, SESSION_ID |-> tid,
              agent_messages |-> ag, error |-> <<>>, seconds |-> 0,
              path |-> <<>>, all_messages |-> AllMessagesField(flag, am)]
        ELSE [returned |-> TRUE, success |-> FALSE, SESSION_ID |-> Absent,
              agent_messages |-> <<>>, error |-> StripMsg(em2),
              seconds |-> 0,
              path |-> <<>>, all_messages |-> AllMessagesField(flag, am)]

(* Lines 282-287: the result built from GeminiTimeoutError. *)
TimeoutResult(secs, flag, am) ==
    [returned |-> TRUE, success |-> FALSE, SESSION_ID |-> Absent,
     agent_messages |-> <<>>, error |-> <<Entry("timeout", 0)>>,
     seconds |-> secs, path |-> <<>>,
     all_messages |-> IF flag THEN [t |-> "list", v |-> am]
                      ELSE [t |-> "none", v |-> <<>>]]

----------------------------------------------------------------------------
(* What the for loop of gemini does with one line the generator yields.    *)

Current == Agg(all_messages, agent_messages, thread_id, err_message, TRUE)

Fold(line) ==
    LET a == LoopBody(Current, line)
    IN  /\ all_messages' = a.all_messages
        /\ agent_messages' = a.agent_messages
        /\ thread_id' = a.thread_id
        /\ err_message' = a.err_message
        /\ delivered' = Append(delivered, line)
        /\ left_by_break' = ~a.go

(* The result gemini returns when its for loop has ended without a         *)
(* timeout, from the aggregator's state a.                                 *)
Finish(a) ==
    Verdict(a.thread_id, a.agent_messages, a.err_message,
            return_all_messages, a.all_messages)

----------------------------------------------------------------------------
(* SpecAgg: the for loop of gemini over the generator.                     *)

AggLines == {BadShort, BadLong, BadGap, Blank, NonObject, BigInt, ObjBigInt,
             ListBigInt, DeepList, AsstDeep, BadDeep, AsstA, AsstB, UserU,
             NullSid, NoticeX, NoticeOnly, AsstNum, AsstNull, AsstList,
             Sentinel}

RECURSIVE BadRun(_)
BadRun(s) ==
    IF s = <<>> \/ Head(s) # BadLong THEN 0 ELSE 1 + BadRun(Tail(s))

(* The generator yields nothing after a turn.completed line: read_output   *)
(* stops reading there.                                                    *)
MayYield(s, line) ==
    /\ \A i \in 1..Len(s) : ~TurnCompleted(s[i])
    /\ LET t == Append(s, line)
       IN  /\ BadRun(t) <= MaxBadRun
           /\ Len(t) - BadRun(t) <=
                 (IF BadRun(t) <= 1 THEN MaxTail ELSE MaxRunTail)

InitAgg ==
    /\ cd = WorkDir
    /\ auth_ok = TRUE
    /\ timeout = DEFAULT_TIMEOUT
    /\ return_all_messages \in BOOLEAN
    /\ stream = <<>>
    /\ pc = "for"
    /\ result = NoResult
    /\ probes = 1
    /\ process = "running"
    /\ reaped = FALSE
    /\ sigterm = FALSE
    /\ sigkill = FALSE
    /\ out_closed = FALSE
    /\ nWritten = 0
    /\ nRead = 0
    /\ rpc = "read"
    /\ stripped = NoLine
    /\ output_queue = <<>>
    /\ now = 0
    /\ all_messages = <<>>
    /\ agent_messages = <<>>
    /\ thread_id = None
    /\ err_message = <<>>
    /\ delivered = <<>>
    /\ left_by_break = FALSE
    /\ nFull = 0
    /\ nTerminate = 0
    /\ sentinelRead = 0
    /\ expired_open = FALSE
    /\ nMarkers = 0
    /\ joined = FALSE
    /\ enqueued = <<>>

pipeVars == <<procVars, nRead, rpc, stripped,
              output_queue, now, nFull, nTerminate, sentinelRead, probes,
              expired_open, ledger>>

(* The generator yields a line and the loop body runs on it; a `break`     *)
(* leaves the loop and gemini builds its result.                           *)
AggYield(line) ==
    /\ pc = "for"
    /\ MayYield(delivered, line)
    /\ Fold(line)
    /\ LET a == LoopBody(Current, line)
       IN  IF a.go
           THEN pc' = "for" /\ result' = result
           ELSE pc' = "returned" /\ result' = Finish(a)
    /\ UNCHANGED <<inputVars, pipeVars>>

(* The generator ends. *)
AggEnd ==
    /\ pc = "for"
    /\ pc' = "returned"
    /\ result' = Finish(Current)
    /\ UNCHANGED <<inputVars, pipeVars, aggVars>>

(* The generator raises GeminiTimeoutError. *)
AggTimeout ==
    /\ pc = "for"
    /\ pc' = "returned"
    /\ result' = TimeoutResult(timeout, return_all_messages, all_messages)
    /\ UNCHANGED <<inputVars, pipeVars, aggVars>>

NextAgg ==
    \/ \E line \in AggLines : AggYield(line)
    \/ AggEnd
    \/ AggTimeout

SpecAgg == InitAgg /\ [][NextAgg]_vars

----------------------------------------------------------------------------
(* Spec: the whole invocation.                                             *)

(* The output of the subprocess is a series of events, with up to MaxOdd   *)
(* lines among them that end the reading or the loop.  The events of a     *)
(* stream differ from their neighbours, so that their order shows.         *)
EventLines == <<AsstA, AsstB, UserU, NullSid>>
OddLines == {NonObject, Sentinel, BadBytes, ObjBigInt}
PipeLines == {EventLines[i] : i \in 1..Len(EventLines)} \cup OddLines

EventAt(i) == EventLines[((i - 1) % Len(EventLines)) + 1]

RECURSIVE SeqsUpTo(_, _)
SeqsUpTo(S, n) ==
    IF n = 0 THEN {<<>>}
    ELSE LET shorter == SeqsUpTo(S, n - 1)
         IN  shorter \cup {Append(q, x) : q \in shorter, x \in S}

PipeStreams ==
    {s \in SeqsUpTo(PipeLines, MaxLines) :
        /\ \A i \in 1..Len(s) : s[i] \in OddLines \/ s[i] = EventAt(i)
        /\ Cardinality({i \in 1..Len(s) : s[i] \in OddLines}) <= MaxOdd}

Init ==
    /\ cd \in {WorkDir, GoneRel, GoneAbs, AFile}
    /\ auth_ok \in BOOLEAN
    /\ timeout = MaxTimeout
    /\ return_all_messages \in BOOLEAN
    /\ stream \in PipeStreams
    /\ pc = "start"
    /\ result = NoResult
    /\ probes = 0
    /\ process = "none"
    /\ reaped = FALSE
    /\ sigterm = FALSE
    /\ sigkill = FALSE
    /\ out_closed = FALSE
    /\ nWritten = 0
    /\ nRead = 0
    /\ rpc = "idle"
    /\ stripped = NoLine
    /\ output_queue = <<>>
    /\ now = 0
    /\ all_messages = <<>>
    /\ agent_messages = <<>>
    /\ thread_id = None
    /\ err_message = <<>>
    /\ delivered = <<>>
    /\ left_by_break = FALSE
    /\ nFull = 0
    /\ nTerminate = 0
    /\ sentinelRead = 0
    /\ expired_open = FALSE
    /\ nMarkers = 0
    /\ joined = FALSE
    /\ enqueued = <<>>

Failure(tag, path) ==
    [returned |-> TRUE, success |-> FALSE, SESSION_ID |-> Absent,
     agent_messages |-> <<>>, error |-> <<Entry(tag, 0)>>, seconds |-> 0,
     path |-> path, all_messages |-> [t |-> "absent", v |-> <<>>]]

(* The reader holds its end of the pipe open; the subprocess's output has  *)
(* ended when the subprocess has exited or closed it, or the reader has    *)
(* stopped reading.                                                        *)
PipeOpen == rpc \in {"read", "put", "grace"}
StreamEnded == process = "exited" \/ out_closed \/ ~PipeOpen

(* Popen.send_signal: poll() first, which collects the status of a         *)
(* subprocess that has exited; the signal goes to one that has not.        *)
Polled == reaped \/ process = "exited"
Signalled(sent) == sent \/ process = "running"

(* ---- gemini, before the loop ---- *)

(* CheckWorkspace with the probe started before the test of the path *)
CheckWorkspaceLate ==
    /\ pc = "start"
    /\ probes' = probes + 1
    /\ IF ~Exists(cd)
       THEN /\ pc' = "returned"
            /\ result' = Failure("workspace", Absolute(cd).parts)
       ELSE /\ pc' = "auth"
            /\ result' = result
    /\ UNCHANGED <<inputVars, procVars, relayVars, output_queue, now,
                   aggVars, expired_open, ledger>>

(* lines 222-227 *)
CheckWorkspace ==
    /\ pc = "start"
    /\ IF ~Exists(cd)
       THEN /\ pc' = "returned"
            /\ result' = Failure("workspace", Absolute(cd).parts)
       ELSE /\ pc' = "auth"
            /\ result' = result
    /\ UNCHANGED <<inputVars, probes, procVars, relayVars, output_queue, now,
                   aggVars, expired_open, ledger>>

(* lines 229-236: check_gemini_auth runs `gemini --version` *)
CheckAuth ==
    /\ pc = "auth"
    /\ probes' = probes + 1
    /\ IF ~auth_ok
       THEN /\ pc' = "returned"
            /\ result' = Failure("auth", <<>>)
       ELSE /\ pc' = "spawn"
            /\ result' = result
    /\ UNCHANGED <<inputVars, procVars, relayVars, output_queue, now,
                   aggVars, expired_open, ledger>>

(* lines 76-124: Popen, the queue, start_time, thread.start().  Popen      *)
(* raises NotADirectoryError when cwd is not a directory; nothing catches  *)
(* it and gemini raises instead of returning a result.                     *)
Start ==
    /\ pc = "spawn"
    /\ IF IsDir(cd)
       THEN /\ process' = "running"
            /\ rpc' = "read"
            /\ pc' = "poll"
       ELSE /\ pc' = "raised"
            /\ UNCHANGED <<process, rpc>>
    /\ output_queue' = <<>>
    /\ now' = 0
    /\ UNCHANGED <<inputVars, result, probes, reaped, sigterm, sigkill,
                   out_closed, nWritten, nRead, stripped, nFull, nTerminate,
                   sentinelRead, aggVars, expired_open, ledger>>

(* ---- time ---- *)

(* The clock advances while the invocation runs; it is not followed       *)
(* beyond the first tick after the timeout.                                *)
Tick ==
    /\ pc \in {"poll", "get", "idle", "wait", "join", "drain"}
    /\ now <= timeout
    /\ now' = now + 1
    /\ expired_open' = (expired_open \/ (now' > timeout /\ ~StreamEnded))
    /\ UNCHANGED <<inputVars, pc, result, probes, procVars, relayVars,
                   output_queue, aggVars, ledger>>

(* ---- the subprocess ---- *)

ProcWrite ==
    /\ process = "running"
    /\ ~out_closed
    /\ PipeOpen
    /\ nWritten < Len(stream)
    /\ nWritten' = nWritten + 1
    /\ UNCHANGED <<inputVars, pc, result, probes, process, reaped, sigterm,
                   sigkill, out_closed, relayVars, output_queue, now,
                   aggVars, expired_open, ledger>>

(* The subprocess closes its output and goes on running. *)
ProcClose ==
    /\ process = "running"
    /\ ~out_closed
    /\ nWritten = Len(stream)
    /\ out_closed' = TRUE
    /\ UNCHANGED <<inputVars, pc, result, probes, process, reaped, sigterm,
                   sigkill, nWritten, relayVars, output_queue, now, aggVars,
                   expired_open, ledger>>

(* The subprocess exits: at the end of its output, on SIGTERM or SIGKILL,  *)
(* or when its output pipe has been closed.  It may also never exit.       *)
ProcExit ==
    /\ process = "running"
    /\ nWritten = Len(stream) \/ sigterm \/ sigkill \/ ~PipeOpen
    /\ process' = "exited"
    /\ UNCHANGED <<inputVars, pc, result, probes, reaped, sigterm, sigkill,
                   out_closed, nWritten, relayVars, output_queue, now,
                   aggVars, expired_open, ledger>>

(* ---- read_output, lines 104-121 ---- *)

(* readline returns a line *)
RelayRead ==
    /\ rpc = "read"
    /\ nRead < nWritten
    /\ stream[nRead + 1].json # "bytes"
    /\ nRead' = nRead + 1
    /\ rpc' = "put"
    /\ stripped' = Strip(stream[nRead + 1])
    /\ sentinelRead' = sentinelRead +
          (IF TurnCompleted(Strip(stream[nRead + 1])) THEN 1 ELSE 0)
    /\ UNCHANGED <<inputVars, pc, result, probes, procVars, nFull, nTerminate,
                   output_queue, now, aggVars, expired_open, ledger>>

(* readline raises UnicodeDecodeError: the text layer decodes what the     *)
(* pipe holds by chunks, so bytes that are not UTF-8 make it raise when    *)
(* they are the next line, and may make it raise as soon as they have been *)
(* written.  The finally clause closes the pipe and the thread ends        *)
(* without reaching line 121.                                              *)
RelayReadError ==
    /\ rpc = "read"
    /\ \E j \in (nRead + 1)..nWritten : stream[j].json = "bytes"
    /\ rpc' = "dead"
    /\ UNCHANGED <<inputVars, pc, result, probes, procVars, nRead, stripped,
                   nFull, nTerminate, sentinelRead, output_queue, now,
                   aggVars, expired_open, ledger>>

(* readline returns "": the subprocess has closed its output or exited *)
RelayEof ==
    /\ rpc = "read"
    /\ nRead = nWritten
    /\ process = "exited" \/ out_closed
    /\ rpc' = "put_none"
    /\ UNCHANGED <<inputVars, pc, result, probes, procVars, nRead, stripped,
                   nFull, nTerminate, sentinelRead, output_queue, now,
                   aggVars, expired_open, ledger>>

(* read_output after a put that succeeded: is_turn_completed raises (the   *)
(* thread ends as on a read error), or sends it to the grace interval, or  *)
(* to the next line.                                                       *)
AfterPut(line) ==
    IF is_turn_completed(line).raised THEN "dead"
    ELSE IF is_turn_completed(line).value THEN "grace"
    ELSE "read"

(* RelayPut with the line put at the head of the queue *)
RelayPutFront ==
    /\ rpc = "put"
    /\ Len(output_queue) < QueueCap
    /\ output_queue' = <<stripped>> \o output_queue
    /\ enqueued' = Append(enqueued, stripped)
    /\ rpc' = AfterPut(stripped)
    /\ UNCHANGED <<inputVars, pc, result, probes, procVars, nRead, stripped,
                   nFull, nTerminate, sentinelRead, now, aggVars,
                   expired_open, nMarkers, joined>>

(* output_queue.put(stripped, timeout=1) finds room *)
RelayPut ==
    /\ rpc = "put"
    /\ Len(output_queue) < QueueCap
    /\ output_queue' = Append(output_queue, stripped)
    /\ enqueued' = Append(enqueued, stripped)
    /\ rpc' = AfterPut(stripped)
    /\ UNCHANGED <<inputVars, pc, result, probes, procVars, nRead, stripped,
                   nFull, nTerminate, sentinelRead, now, aggVars,
                   expired_open, nMarkers, joined>>

(* RelayFull with the oldest item given up for the line in hand *)
RelayFullDropOldest ==
    /\ rpc = "put"
    /\ Len(output_queue) = QueueCap
    /\ nFull' = nFull + 1
    /\ output_queue' = Append(Tail(output_queue), stripped)
    /\ rpc' = "read"
    /\ UNCHANGED <<inputVars, pc, result, probes, procVars, nRead, stripped,
                   nTerminate, sentinelRead, now, aggVars, expired_open,
                   ledger>>

(* output_queue.put(stripped, timeout=1) raises queue.Full: continue *)
RelayFull ==
    /\ rpc = "put"
    /\ Len(output_queue) = QueueCap
    /\ nFull' = nFull + 1
    /\ rpc' = "read"
    /\ UNCHANGED <<inputVars, pc, result, probes, procVars, nRead, stripped,
                   nTerminate, sentinelRead, output_queue, now, aggVars,
                   expired_open, ledger>>

(* RelayTerminate without the break *)
RelayTerminateNoBreak ==
    /\ rpc = "grace"
    /\ nTerminate' = nTerminate + 1
    /\ reaped' = Polled
    /\ sigterm' = Signalled(sigterm)
    /\ rpc' = "read"
    /\ UNCHANGED <<inputVars, pc, result, probes, process, sigkill,
                   out_closed, nWritten, nRead, stripped, nFull, sentinelRead,
                   output_queue, now, aggVars, expired_open, ledger>>

(* time.sleep(GRACEFUL_SHUTDOWN_DELAY); process.terminate(); break *)
RelayTerminate ==
    /\ rpc = "grace"
    /\ nTerminate' = nTerminate + 1
    /\ reaped' = Polled
    /\ sigterm' = Signalled(sigterm)
    /\ rpc' = "put_none"
    /\ UNCHANGED <<inputVars, pc, result, probes, process, sigkill,
                   out_closed, nWritten, nRead, stripped, nFull, sentinelRead,
                   output_queue, now, aggVars, expired_open, ledger>>

(* output_queue.put(None): no timeout, it waits for room *)
RelayPutNone ==
    /\ rpc = "put_none"
    /\ Len(output_queue) < QueueCap
    /\ output_queue' = Append(output_queue, NoLine)
    /\ nMarkers' = nMarkers + 1
    /\ rpc' = "done"
    /\ UNCHANGED <<inputVars, pc, result, probes, procVars, nRead, stripped,
                   nFull, nTerminate, sentinelRead, now, aggVars,
                   expired_open, joined, enqueued>>

(* ---- run_shell_command's loop, lines 127-148, with gemini's loop body ---- *)

(* PollKill without process.kill() *)
PollNoKill ==
    /\ pc = "poll"
    /\ now > timeout
    /\ pc' = "expired"
    /\ UNCHANGED <<inputVars, result, probes, procVars, relayVars,
                   output_queue, now, aggVars, expired_open, ledger>>

(* lines 129-131: elapsed > timeout, process.kill() *)
PollKill ==
    /\ pc = "poll"
    /\ now > timeout
    /\ reaped' = Polled
    /\ sigkill' = Signalled(sigkill)
    /\ pc' = "expired"
    /\ UNCHANGED <<inputVars, result, probes, process, sigterm, out_closed,
                   nWritten, relayVars, output_queue, now, aggVars,
                   expired_open, ledger>>

(* lines 132-139: process.wait(timeout=2) returns, GeminiTimeoutError is   *)
(* raised and gemini returns lines 283-287 *)
PollWaitDone ==
    /\ pc = "expired"
    /\ process = "exited"
    /\ reaped' = TRUE
    /\ pc' = "returned"
    /\ result' = TimeoutResult(timeout, return_all_messages, all_messages)
    /\ UNCHANGED <<inputVars, probes, process, sigterm, sigkill, out_closed,
                   nWritten, relayVars, output_queue, now, aggVars,
                   expired_open, ledger>>

(* lines 132-139: process.wait(timeout=2) raises TimeoutExpired, which is  *)
(* passed over: the status of the subprocess is not collected              *)
PollWaitExpired ==
    /\ pc = "expired"
    /\ process = "running"
    /\ pc' = "returned"
    /\ result' = TimeoutResult(timeout, return_all_messages, all_messages)
    /\ UNCHANGED <<inputVars, probes, procVars, relayVars, output_queue, now,
                   aggVars, expired_open, ledger>>

PollContinue ==
    /\ pc = "poll"
    /\ ~(now > timeout)
    /\ pc' = "get"
    /\ UNCHANGED <<inputVars, result, probes, procVars, relayVars,
                   output_queue, now, aggVars, expired_open, ledger>>

(* After the loop body ran on a line: the loop goes on at `next`, or a     *)
(* break leaves it and gemini builds its result (the generator is dropped  *)
(* where it stands).                                                       *)
AfterBody(line, next) ==
    LET a == LoopBody(Current, line)
    IN  IF a.go
        THEN pc' = next /\ result' = result
        ELSE pc' = "returned" /\ result' = Finish(a)

(* output_queue.get(timeout=0.5) returns an item *)
GetItem ==
    /\ pc = "get"
    /\ output_queue # <<>>
    /\ output_queue' = Tail(output_queue)
    /\ IF Head(output_queue) = NoLine
       THEN /\ pc' = "wait"
            /\ UNCHANGED <<result, aggVars>>
       ELSE /\ Fold(Head(output_queue))
            /\ AfterBody(Head(output_queue), "poll")
    /\ UNCHANGED <<inputVars, probes, procVars, relayVars, now, expired_open,
                   ledger>>

(* output_queue.get(timeout=0.5) raises queue.Empty *)
GetEmpty ==
    /\ pc = "get"
    /\ output_queue = <<>>
    /\ pc' = "idle"
    /\ UNCHANGED <<inputVars, result, probes, procVars, relayVars,
                   output_queue, now, aggVars, expired_open, ledger>>

(* process.poll() is not None and not thread.is_alive() *)
IdleCheck ==
    /\ pc = "idle"
    /\ reaped' = Polled
    /\ pc' = IF process = "exited" /\ rpc \in {"done", "dead"}
             THEN "wait" ELSE "poll"
    /\ UNCHANGED <<inputVars, result, probes, process, sigterm, sigkill,
                   out_closed, nWritten, relayVars, output_queue, now,
                   aggVars, expired_open, ledger>>

(* ---- cleanup, lines 150-173 ---- *)

(* process.wait(timeout=5) returns *)
CleanupWait ==
    /\ pc = "wait"
    /\ process = "exited"
    /\ reaped' = TRUE
    /\ pc' = "join"
    /\ UNCHANGED <<inputVars, result, probes, process, sigterm, sigkill,
                   out_closed, nWritten, relayVars, output_queue, now,
                   aggVars, expired_open, ledger>>

(* lines 152-153: process.wait(timeout=5) raises TimeoutExpired *)
CleanupWaitExpired ==
    /\ pc = "wait"
    /\ process = "running"
    /\ pc' = "kill"
    /\ UNCHANGED <<inputVars, result, probes, procVars, relayVars,
                   output_queue, now, aggVars, expired_open, ledger>>

(* line 154: process.kill(), on a subprocess that may have exited since *)
CleanupKill ==
    /\ pc = "kill"
    /\ reaped' = Polled
    /\ sigkill' = Signalled(sigkill)
    /\ pc' = "killed"
    /\ UNCHANGED <<inputVars, result, probes, process, sigterm, out_closed,
                   nWritten, relayVars, output_queue, now, aggVars,
                   expired_open, ledger>>

(* line 156: process.wait(timeout=2) returns *)
CleanupKillWait ==
    /\ pc = "killed"
    /\ process = "exited"
    /\ reaped' = TRUE
    /\ pc' = "join"
    /\ UNCHANGED <<inputVars, result, probes, process, sigterm, sigkill,
                   out_closed, nWritten, relayVars, output_queue, now,
                   aggVars, expired_open, ledger>>

(* lines 157-158: process.wait(timeout=2) raises TimeoutExpired: pass *)
CleanupKillExpired ==
    /\ pc = "killed"
    /\ process = "running"
    /\ pc' = "join"
    /\ UNCHANGED <<inputVars, result, probes, procVars, relayVars,
                   output_queue, now, aggVars, expired_open, ledger>>

(* thread.join(timeout=5) returns, the thread ended or not *)
Join ==
    /\ pc = "join"
    /\ joined' = TRUE
    /\ pc' = "drain"
    /\ UNCHANGED <<inputVars, result, probes, procVars, relayVars,
                   output_queue, now, aggVars, expired_open, nMarkers,
                   enqueued>>

(* get_nowait() in the drain loop *)
DrainItem ==
    /\ pc = "drain"
    /\ output_queue # <<>>
    /\ output_queue' = Tail(output_queue)
    /\ IF Head(output_queue) = NoLine
       THEN UNCHANGED <<pc, result, aggVars>>
       ELSE /\ Fold(Head(output_queue))
            /\ AfterBody(Head(output_queue), "drain")
    /\ UNCHANGED <<inputVars, probes, procVars, relayVars, now, expired_open,
                   ledger>>

(* the queue is empty: the generator ends and gemini builds its result *)
DrainEnd ==
    /\ pc = "drain"
    /\ output_queue = <<>>
    /\ pc' = "returned"
    /\ result' = Finish(Current)
    /\ UNCHANGED <<inputVars, probes, procVars, relayVars, output_queue, now,
                   aggVars, expired_open, ledger>>

Next ==
    \/ CheckWorkspace
    \/ CheckAuth
    \/ Start
    \/ Tick
    \/ ProcWrite
    \/ ProcClose
    \/ ProcExit
    \/ RelayRead
    \/ RelayReadError
    \/ RelayEof
    \/ RelayPut
    \/ RelayFull
    \/ RelayTerminate
    \/ RelayPutNone
    \/ PollKill
    \/ PollWaitDone
    \/ PollWaitExpired
    \/ PollContinue
    \/ GetItem
    \/ GetEmpty
    \/ IdleCheck
    \/ CleanupWait
    \/ CleanupWaitExpired
    \/ CleanupKill
    \/ CleanupKillWait
    \/ CleanupKillExpired
    \/ Join
    \/ DrainItem
    \/ DrainEnd

Spec == Init /\ [][Next]_vars

----------------------------------------------------------------------------
(* Vocabulary of the properties.                                           *)

Returned == pc = "returned"
HasTag(msg, tag) == \E i \in 1..Len(msg) : msg[i].tag = tag
TimedOut == Returned /\ HasTag(result.error, "timeout")
Finished == Returned /\ ~TimedOut
    /\ ~HasTag(result.error, "workspace") /\ ~HasTag(result.error, "auth")

(* the text of the line is a JSON document *)
ValidJson(line) == line.json \notin {"bad", "bytes", "None"}

(* json.loads at line 258 decodes the line *)
Decodes(line) == json_loads(Strip(line), LoopFrames).ok
IsObject(line) == Decodes(line) /\ line.json = "object"

(* a line that json.loads at line 258 decodes to an assistant-role message *)
IsAssistant(line) ==
    /\ IsObject(line)
    /\ line.type = "message"
    /\ line.role = "assistant"

(* the content of the line is text (a missing content is the empty text)   *)
TextContent(line) == line.content.t \in {"str", "absent"}

IsAssistantText(line) == IsAssistant(line) /\ TextContent(line)

CarriesSid(line) ==
    IsObject(line) /\ line.session_id # Absent /\ line.session_id # None

RECURSIVE LastSid(_)
LastSid(s) ==
    IF s = <<>> THEN None
    ELSE IF CarriesSid(s[Len(s)]) THEN s[Len(s)].session_id
    ELSE LastSid(SubSeq(s, 1, Len(s) - 1))

RECURSIVE AssistantText(_)
AssistantText(s) ==
    IF s = <<>> THEN <<>>
    ELSE (IF IsAssistantText(Head(s)) THEN Head(s).content.s ELSE <<>>)
         \o AssistantText(Tail(s))

RECURSIVE AssistantTextSansNotice(_)
AssistantTextSansNotice(s) ==
    IF s = <<>> THEN <<>>
    ELSE (IF IsAssistantText(Head(s)) /\ ~HasNotice(Head(s).content)
          THEN Head(s).content.s ELSE <<>>)
         \o AssistantTextSansNotice(Tail(s))

RECURSIVE Events(_)
Events(s) ==
    IF s = <<>> THEN <<>>
    ELSE (IF Decodes(Head(s)) THEN <<Decoded(Strip(Head(s)))>> ELSE <<>>)
         \o Events(Tail(s))

(* the values of the lines that are JSON documents *)
RECURSIVE ValidEvents(_)
ValidEvents(s) ==
    IF s = <<>> THEN <<>>
    ELSE (IF ValidJson(Head(s)) THEN <<Decoded(Strip(Head(s)))>> ELSE <<>>)
         \o ValidEvents(Tail(s))

Malformed(s) ==
    SelectSeq(s, LAMBDA l :
                  json_loads(Strip(l), LoopFrames).exc = "JSONDecodeError")
JsonEntries(msg) == SelectSeq(msg, LAMBDA e : e.tag = "json")

----------------------------------------------------------------------------
(* C1, as stated: whenever the clock passed the timeout while the          *)
(* subprocess's output had not ended, the result is the timeout failure.   *)
C1_TimeoutWheneverExpired ==
    (Returned /\ ~left_by_break /\ expired_open) => TimedOut

(* C1, amended: whenever the deadline check at the top of a poll iteration *)
(* finds elapsed > timeout, the calling thread kills the subprocess (sends *)
(* SIGKILL unless it has exited), and its next step returns a failure that *)
(* carries the configured timeout; a timeout failure is only ever returned *)
(* for a subprocess that has exited or been sent SIGKILL.                  *)
C1_DeadlineCheck ==
    /\ [][(pc = "poll" /\ now > timeout /\ pc' # pc) =>
             /\ pc' = "expired"
             /\ sigkill' \/ process' = "exited"]_vars
    /\ [][(pc = "expired" /\ pc' # pc) =>
             /\ pc' = "returned"
             /\ result'.success = FALSE
             /\ HasTag(result'.error, "timeout")
             /\ result'.seconds = timeout]_vars
    /\ [](TimedOut => /\ result.success = FALSE
                      /\ result.seconds = timeout
                      /\ sigkill \/ process = "exited")

C1_Witness ==
    /\ TimedOut
    /\ result.seconds = timeout
    /\ sigkill
    /\ process = "exited"
    /\ reaped
    /\ nWritten < Len(stream)
    /\ PipeOpen

(* C2: once the reader has read a turn.completed line and is through with  *)
(* it, it has called process.terminate().                                  *)
SentinelInHand == rpc \in {"put", "grace"} /\ TurnCompleted(stripped)
C2_SentinelTerminates ==
    (sentinelRead > 0 /\ ~SentinelInHand) => nTerminate > 0

(* C9: when lines met a full queue before the consumer took any, the       *)
(* reader is never left waiting on a full queue that nobody will empty.    *)
RelayStuck ==
    /\ rpc = "put_none"
    /\ Len(output_queue) = QueueCap
    /\ Returned
C9_NoDeadlock ==
    (nFull > 0 /\ delivered = <<>> /\ ~left_by_break) => ~RelayStuck

(* C10: when the workspace does not exist, no probe and no subprocess is   *)
(* ever started, and the result is the failure that names the path.        *)
C10_NoSpawnWithoutWorkspace ==
    ~Exists(cd) =>
        /\ probes = 0
        /\ process = "none"
        /\ rpc = "idle"
        /\ Returned =>
              /\ result.success = FALSE
              /\ HasTag(result.error, "workspace")
              /\ result.path = IF cd.abs THEN cd.parts ELSE Cwd \o cd.parts

C10_Witness ==
    /\ Returned
    /\ cd = GoneRel
    /\ result.success = FALSE
    /\ result.path = <<"home", "gone">>
    /\ probes = 0

(* C3: when the invocation finishes without a timeout, the result is the   *)
(* missing-session failure if the aggregator holds no session id (even if  *)
(* it holds assistant text), else the empty-response failure if it holds   *)
(* no assistant text, else a success carrying the session id and the text. *)
C3_Verdict ==
    Finished =>
        /\ thread_id = None =>
              /\ result.success = FALSE
              /\ HasTag(result.error, "missing_session")
              /\ ~HasTag(result.error, "empty_response")
        /\ (thread_id # None /\ agent_messages = <<>>) =>
              /\ result.success = FALSE
              /\ HasTag(result.error, "empty_response")
              /\ ~HasTag(result.error, "missing_session")
        /\ (thread_id # None /\ agent_messages # <<>>) =>
              /\ result.success = TRUE
              /\ result.SESSION_ID = thread_id
              /\ result.agent_messages = agent_messages
        /\ result.success = TRUE <=>
              (thread_id # None /\ agent_messages # <<>>)

C3_Witness ==
    /\ Finished
    /\ thread_id = None
    /\ agent_messages # <<>>
    /\ result.success = FALSE
    /\ HasTag(result.error, "missing_session")

(* C4: for a stream the loop went through, the session id the aggregator   *)
(* holds is the last non-null session_id carried by the lines it was       *)
(* given, whatever their type, role and content.                           *)
C4_LastWriteWins == ~left_by_break => thread_id = LastSid(delivered)

C6_AllEvents == all_messages = ValidEvents(delivered)

(* C7, as stated: one entry per malformed line, snippets of at most 200    *)
(* characters, and a log that never exceeds 2000 characters.               *)
C7_OnePerLineWithinCap ==
    /\ Len(JsonEntries(err_message)) = Len(Malformed(delivered))
    /\ \A i \in 1..Len(err_message) :
          err_message[i].tag = "json" => err_message[i].n <= SNIPPET
    /\ TextLen(err_message) <= ERR_CAP

(* C7, amended: a malformed line (one json.loads rejects with              *)
(* JSONDecodeError) adds at most one entry, and exactly one as long as the *)
(* log is shorter than 2000 characters; an entry holds at most 200         *)
(* characters of the line; the decode-error text of the log never exceeds  *)
(* 1999 characters plus one entry.                                         *)
C7_LogBounded ==
    /\ Len(JsonEntries(err_message)) <= Len(Malformed(delivered))
    /\ TextLen(err_message) < ERR_CAP =>
          Len(JsonEntries(err_message)) = Len(Malformed(delivered))
    /\ \A i \in 1..Len(err_message) :
          err_message[i].tag = "json" => err_message[i].n <= SNIPPET
    /\ TextLen(JsonEntries(err_message))
          <= (ERR_CAP - 1) + PrefixLen("json") + SNIPPET

C7_Witness ==
    /\ TextLen(err_message) > ERR_CAP
    /\ Len(JsonEntries(err_message)) < Len(Malformed(delivered))

(* C8: no line makes the aggregator stop: the for loop is never left by    *)
(* `break`.                                                                *)
C8_NoLineAborts == ~left_by_break

----------------------------------------------------------------------------
(* Vocabulary of the properties of the queue.                              *)

(* the lines waiting on the queue, the None item left out *)
QueuedLines == SelectSeq(output_queue, LAMBDA l : l # NoLine)

(* the consumer has dequeued the None item *)
MarkerTaken ==
    /\ nMarkers > 0
    /\ \A i \in 1..Len(output_queue) : output_queue[i] # NoLine

(* the lines read_output has read so far, as str.strip() leaves them *)
ReadLines == [i \in 1..nRead |-> Strip(stream[i])]

RECURSIVE IsSubseq(_, _)
IsSubseq(s, t) ==
    IF s = <<>> THEN TRUE
    ELSE IF t = <<>> THEN FALSE
    ELSE IF Head(s) = Head(t) THEN IsSubseq(Tail(s), Tail(t))
    ELSE IsSubseq(s, Tail(t))

(* read_output has found a turn.completed line after putting it *)
Detected == rpc = "grace" \/ nTerminate > 0

MentionsNotice(line) ==
    \E i \in 1..Len(line.content.s) : line.content.s[i] = NOTICE
ExactNotice(line) == line.content.s = <<NOTICE>>

----------------------------------------------------------------------------
(* C11: for each verdict of the for loop (success, missing session, empty  *)
(* response, timeout) the result has the key all_messages exactly when     *)
(* return_all_messages is set, and on a timeout the key, when present,     *)
(* holds the events decoded so far.                                        *)
C11_FieldIffFlag ==
    (Finished \/ TimedOut) =>
        /\ (result.all_messages.t # "absent") <=> return_all_messages
        /\ (TimedOut /\ return_all_messages) =>
              result.all_messages = [t |-> "list", v |-> Events(delivered)]

(* C12: read_output puts None on the queue at most once, and has put it    *)
(* exactly once when the thread has ended, whether the loop ended at the   *)
(* end of the output, on a turn.completed line or on a read error.         *)
C12_ExactlyOneMarker ==
    /\ nMarkers <= 1
    /\ rpc \in {"done", "dead"} => nMarkers = 1

(* C13: when the invocation finishes without a timeout, the lines given to *)
(* the for loop are exactly the lines put on the queue, each once; and     *)
(* once the consumer has left the poll loop by None or by the idle check,  *)
(* read_output has ended and puts no further line.                         *)
C13_AllEnqueuedDelivered ==
    /\ Finished => delivered = enqueued
    /\ pc \in {"wait", "join", "drain"} => rpc \in {"done", "dead"}

(* C14: whenever the generator was left by None, by the timeout or by the  *)
(* idle check, the subprocess has been waited for, the thread has been     *)
(* joined and no line is left on the queue when the result is returned.    *)
C14_ReconcilerRuns ==
    (Returned /\ process # "none" /\ ~left_by_break) =>
        /\ reaped \/ sigkill
        /\ joined
        /\ QueuedLines = <<>>

(* C15: every put of read_output completes or gives up: also once the     *)
(* consumer has returned, a put in progress, of a line or of None, has a   *)
(* step that ends it.                                                      *)
C15_PutsBounded ==
    (Returned /\ rpc \in {"put", "put_none"}) =>
        ENABLED (RelayPut \/ RelayFull \/ RelayPutNone)

(* C16: whenever gemini returns after the subprocess was started, the      *)
(* subprocess has been waited for, or has been killed.                     *)
C16_Reaped ==
    (Returned /\ process # "none") => (reaped \/ sigkill)

(* C17: the lines put on the queue are a subsequence of the lines read     *)
(* from the subprocess (each read line is put at most once), the lines     *)
(* given to the for loop followed by the lines still queued are the lines  *)
(* put on the queue, in that order; and once the consumer has dequeued     *)
(* None, the queue is empty and no line is given to the loop any more.     *)
C17_OrderedSubsequence ==
    /\ [](IsSubseq(enqueued, ReadLines))
    /\ [](Len(enqueued) + nFull + (IF rpc = "put" THEN 1 ELSE 0) = nRead)
    /\ [](delivered \o QueuedLines = enqueued)
    /\ [](MarkerTaken => output_queue = <<>>)
    /\ [][MarkerTaken => delivered' = delivered]_vars

(* The queue held QueueCap lines when the next one arrived and was given   *)
(* up; the line after it was put, and the loop was given every line but    *)
(* the one given up, in the order of the stream.                           *)
C17_Witness ==
    /\ Finished
    /\ MarkerTaken
    /\ nFull = 1
    /\ Len(stream) = QueueCap + 2
    /\ delivered = [i \in 1..(QueueCap + 1) |->
                       Strip(stream[IF i <= QueueCap THEN i ELSE i + 1])]

(* C18: the queue never holds more than its capacity; a put that gives up  *)
(* on a full queue leaves the queue as it was, loses only the line in      *)
(* hand, and read_output goes on to read the next line.                    *)
C18_BoundedDropNewest ==
    /\ [](Len(output_queue) <= QueueCap)
    /\ [][(rpc = "put" /\ Len(output_queue) = QueueCap /\ rpc' # rpc) =>
             /\ output_queue' = output_queue
             /\ enqueued' = enqueued
             /\ nFull' = nFull + 1
             /\ nRead' = nRead
             /\ rpc' = "read"]_vars
    /\ [][nFull' # nFull =>
             /\ Len(output_queue) = QueueCap
             /\ output_queue' = output_queue]_vars

C18_Witness ==
    /\ nFull > 0
    /\ Len(output_queue) = QueueCap
    /\ rpc = "read"
    /\ enqueued # <<>>
    /\ nRead = Len(enqueued) + 1

(* C19: terminate() is called at most once, only with a turn.completed     *)
(* line in hand that is already the last line put on the queue; from the   *)
(* detection on read_output reads no line and puts no line; the one item   *)
(* it puts afterwards is None, and only after terminate().                 *)
C19_SentinelProtocol ==
    /\ [](nTerminate <= 1)
    /\ [](Detected => /\ enqueued # <<>>
                      /\ TurnCompleted(enqueued[Len(enqueued)]))
    /\ [][nTerminate' # nTerminate =>
             /\ rpc = "grace"
             /\ TurnCompleted(stripped)
             /\ nMarkers = 0]_vars
    /\ [][Detected =>
             /\ nRead' = nRead
             /\ enqueued' = enqueued
             /\ nMarkers' # nMarkers => nTerminate = 1]_vars

C19_Witness ==
    /\ nTerminate = 1
    /\ rpc = "done"
    /\ nMarkers = 1
    /\ nWritten > nRead
    /\ TurnCompleted(stripped)

(* C20, as stated: an assistant message is left out of agent_messages only *)
(* when its content is exactly the notice; any other content, here any     *)
(* other text, is appended.                                                *)
C20_OnlyExactNoticeLeftOut ==
    [][delivered' # delivered =>
          LET line == delivered'[Len(delivered')]
          IN  IsAssistantText(line) =>
                 agent_messages' =
                    IF ExactNotice(line) THEN agent_messages
                    ELSE agent_messages \o line.content.s]_vars

(* C20, amended: an assistant-role message that the loop decodes is left   *)
(* out of agent_messages exactly when its content contains the notice,     *)
(* alone or with other text, or is not text; any other content is          *)
(* appended.                                                               *)
C20_NoticeSubstringLeftOut ==
    [][delivered' # delivered =>
          LET line == delivered'[Len(delivered')]
          IN  IsAssistant(line) =>
                 agent_messages' =
                    IF TextContent(line) /\ ~MentionsNotice(line)
                    THEN agent_messages \o line.content.s
                    ELSE agent_messages]_vars

C20_Witness ==
    /\ delivered = <<NoticeX, AsstA>>
    /\ agent_messages = <<"a">>

====
